---- MODULE Spec2Model ----
(***************************************************************************)
(* Model of the Solar1 ADSR envelope (src/src/adsr.rs).                    *)
(*                                                                         *)
(* f64 and f32 values are IEEE-754 values: a sign and, for a finite value, *)
(* a magnitude m * 2^e, with the two infinities and NaN.  Each operation   *)
(* gives the value of its format nearest the exact result, ties to even,   *)
(* as the compiled code does.                                              *)
(***************************************************************************)
EXTENDS Integers, Sequences, FiniteSets, TLC

\* Bounds of the model.
MaxTime == 3        \* call times are 0..MaxTime seconds
MaxAttack == 2      \* attack_s ranges over 0..MaxAttack seconds
MaxDecay == 1       \* decay_s ranges over 0..MaxDecay seconds
MaxRelease == 2     \* release_s ranges over 1..MaxRelease seconds
SustainSteps == 2   \* sustain_level ranges over k/SustainSteps, k in 0..SustainSteps

VARIABLES
    params,     \* AdsrEnvelope.params
    state,      \* AdsrEnvelope.state
    panicked,   \* an assert! of sample has failed: the thread has unwound
    op,         \* the last call made: "new", "trigger", "release" or "sample"
    arg,        \* the time argument of the last call
    ret,        \* <<v>> when the last call returned the f64 v, <<>> otherwise
    prev,       \* the value of state before the last call
    trig,       \* <<t>> when the latest trigger call was trigger(t), <<>> before any
    rep,        \* the last two calls were sample calls with the same time
    sample_rate,    \* Solar1.sample_rate
    self_time,      \* Solar1.time
    self_note,      \* Solar1.note: <<>> for None, <<n>> for Some(MidiNote(n))
    parameters,     \* Solar1.parameters: the array p of Params, by index
    out,            \* the frame last written by process, one sample per channel
    rendered,       \* number of samples rendered so far
    sets,           \* number of set_parameter calls made so far
    pc,             \* where process stands in the body of its loop: "loop"
                    \* between two iterations, else the accessor of Params it
                    \* calls next
    local           \* what the iteration under way holds so far: base_freq
                    \* and the values the accessors have returned, in the
                    \* order of the calls

\* The plugin around the envelope (src/src/lib.rs), with its parameter store.
voice == <<sample_rate, self_time, self_note, parameters, out, rendered, sets,
           pc, local>>

vars == <<params, state, panicked, op, arg, ret, prev, trig, rep, voice>>

----------------------------------------------------------------------------
\* f64 and f32 arithmetic

Abs(x) == IF x < 0 THEN -x ELSE x

Max(x, y) == IF x > y THEN x ELSE y

Min(x, y) == IF x < y THEN x ELSE y

\* Natural numbers of any size: the limbs in base 2^15, lowest first, the
\* highest not zero; <<>> is 0.
Base == 2^15

\* The number of bits of a limb
LimbBits == CHOOSE k \in 1..30 : 2^k = Base

Limb(a, i) == IF i <= Len(a) THEN a[i] ELSE 0

BTrim[a \in Seq(Nat)] ==
    IF a = <<>> THEN a
    ELSE IF a[Len(a)] = 0 THEN BTrim[SubSeq(a, 1, Len(a) - 1)]
    ELSE a

\* 0 <= i < 2^31
BFromInt(i) ==
    IF i = 0 THEN <<>>
    ELSE IF i < Base THEN <<i>>
    ELSE IF i < Base * Base THEN <<i % Base, i \div Base>>
    ELSE <<i % Base, (i \div Base) % Base, i \div (Base * Base)>>

\* a < 2^30
BToInt(a) == Limb(a, 1) + Base * Limb(a, 2)

BOdd(a) == a # <<>> /\ a[1] % 2 = 1

BCmpAt[a \in Seq(Nat), b \in Seq(Nat), i \in Nat] ==
    IF i = 0 THEN 0
    ELSE IF a[i] < b[i] THEN -1
    ELSE IF a[i] > b[i] THEN 1
    ELSE BCmpAt[a, b, i - 1]

\* -1, 0 or 1 as a < b, a = b or a > b
BCmp(a, b) ==
    IF Len(a) < Len(b) THEN -1
    ELSE IF Len(a) > Len(b) THEN 1
    ELSE BCmpAt[a, b, Len(a)]

BAddAt[a \in Seq(Nat), b \in Seq(Nat), i \in Nat, c \in Nat] ==
    IF i > Len(a) /\ i > Len(b) THEN (IF c = 0 THEN <<>> ELSE <<c>>)
    ELSE LET s == Limb(a, i) + Limb(b, i) + c
         IN  <<s % Base>> \o BAddAt[a, b, i + 1, s \div Base]

BAdd(a, b) == BAddAt[a, b, 1, 0]

BSubAt[a \in Seq(Nat), b \in Seq(Nat), i \in Nat, c \in Nat] ==
    IF i > Len(a) THEN <<>>
    ELSE LET d == a[i] - Limb(b, i) - c
         IN  IF d < 0 THEN <<d + Base>> \o BSubAt[a, b, i + 1, 1]
             ELSE <<d>> \o BSubAt[a, b, i + 1, 0]

\* a - b for a >= b
BSub(a, b) == BTrim[BSubAt[a, b, 1, 0]]

BMulSmallAt[a \in Seq(Nat), k \in Nat, i \in Nat, c \in Nat] ==
    IF i > Len(a) THEN (IF c = 0 THEN <<>> ELSE <<c>>)
    ELSE LET p == a[i] * k + c
         IN  <<p % Base>> \o BMulSmallAt[a, k, i + 1, p \div Base]

\* a * k for 0 <= k < Base
BMulSmall(a, k) == IF k = 0 THEN <<>> ELSE BMulSmallAt[a, k, 1, 0]

\* a * Base^q
BShiftLimbs(a, q) == IF a = <<>> THEN a ELSE [i \in 1..q |-> 0] \o a

BMul[a \in Seq(Nat), b \in Seq(Nat)] ==
    IF b = <<>> \/ a = <<>> THEN <<>>
    ELSE BAdd(BMulSmall(a, b[1]), BShiftLimbs(BMul[a, Tail(b)], 1))

BDivSmallAt[a \in Seq(Nat), d \in Nat, i \in Nat, r \in Nat] ==
    IF i = 0 THEN <<>>
    ELSE LET cur == r * Base + a[i]
         IN  Append(BDivSmallAt[a, d, i - 1, cur % d], cur \div d)

\* a \div d for 0 < d <= Base
BDivSmall(a, d) == BTrim[BDivSmallAt[a, d, Len(a), 0]]

\* a * 2^k
BShl(a, k) ==
    IF k = 0 THEN a
    ELSE IF k % LimbBits = 0 THEN BShiftLimbs(a, k \div LimbBits)
    ELSE BShiftLimbs(BMulSmall(a, 2^(k % LimbBits)), k \div LimbBits)

\* a \div 2^k
BShr(a, k) ==
    IF k = 0 THEN a
    ELSE IF k \div LimbBits >= Len(a) THEN <<>>
    ELSE IF k % LimbBits = 0 THEN SubSeq(a, k \div LimbBits + 1, Len(a))
    ELSE BDivSmall(SubSeq(a, k \div LimbBits + 1, Len(a)), 2^(k % LimbBits))

\* Bit k of a is one, bit 0 being the lowest
BBit(a, k) ==
    /\ k \div LimbBits < Len(a)
    /\ (a[k \div LimbBits + 1] \div 2^(k % LimbBits)) % 2 = 1

\* a % 2^k = 0
BLowZero(a, k) ==
    /\ \A i \in 1..Min(k \div LimbBits, Len(a)) : a[i] = 0
    /\ k \div LimbBits < Len(a) => a[k \div LimbBits + 1] % 2^(k % LimbBits) = 0

\* The number of bits of 0 < x < 2^4, and of 0 < x < 2^16
BitsOf4(x) == IF x < 4 THEN (IF x < 2 THEN 1 ELSE 2) ELSE (IF x < 8 THEN 3 ELSE 4)

BitsOf(x) ==
    IF x < 256
    THEN (IF x < 16 THEN BitsOf4(x) ELSE 4 + BitsOf4(x \div 16))
    ELSE (IF x < 4096 THEN 8 + BitsOf4(x \div 256) ELSE 12 + BitsOf4(x \div 4096))

\* The number of zero bits below the lowest one bit of the integer x > 0
RECURSIVE TrailingZeros(_)
TrailingZeros(x) == IF x % 2 = 1 THEN 0 ELSE 1 + TrailingZeros(x \div 2)

\* The number of bits of a: 0 for 0
BBitLen(a) ==
    IF a = <<>> THEN 0 ELSE LimbBits * (Len(a) - 1) + BitsOf(a[Len(a)])

\* The number of zero bits below the lowest one bit of a # 0
BTrailingZeros(a) ==
    LET i == CHOOSE j \in 1..Len(a) : a[j] # 0 /\ \A h \in 1..(j - 1) : a[h] = 0
    IN  LimbBits * (i - 1) + TrailingZeros(a[i])

\* The quotient digit of r by b, for r < b * Base and the top limb of b at
\* least Base / 2: an estimate from the top limbs, lowered until it fits.
BDigitFit[r \in Seq(Nat), b \in Seq(Nat), d \in Nat, p \in Seq(Nat)] ==
    IF BCmp(p, r) > 0 THEN BDigitFit[r, b, d - 1, BSub(p, b)]
    ELSE [d |-> d, r |-> BSub(r, p)]

BDigit(r, b) ==
    LET n == Len(b)
        d == Min(Base - 1, (Limb(r, n + 1) * Base + Limb(r, n)) \div b[n])
    IN  BDigitFit[r, b, d, BMulSmall(b, d)]

\* The quotient q with the digit of step put below it, and the remainder of
\* step
BDivPut(q, step) == [q |-> <<step.d>> \o q, r |-> step.r]

\* Long division of the limbs i, i - 1, ..., 1 of a by b, the limbs above
\* them having given the quotient st.q and the remainder st.r
BDivAt[a \in Seq(Nat), b \in Seq(Nat), i \in Nat, st \in [q : Seq(Nat), r : Seq(Nat)]] ==
    IF i = 0 THEN st
    ELSE BDivAt[a, b, i - 1, BDivPut(st.q, BDigit(BTrim[<<a[i]>> \o st.r], b))]

\* a % d for 0 < d <= Base, from limb i down with r carried in
BModSmallAt[a \in Seq(Nat), d \in Nat, i \in Nat, r \in Nat] ==
    IF i = 0 THEN r ELSE BModSmallAt[a, d, i - 1, (r * Base + a[i]) % d]

\* a \div b, and whether a remainder is left, for b # 0
\* What long division has left in st: the quotient, and whether there is a
\* remainder
BQuotient(st) == [q |-> BTrim[st.q], rest |-> st.r # <<>>]

\* a \div b for a b of two limbs or more whose top limb is at least Base / 2
BDivLong(a, b) == BQuotient(BDivAt[a, b, Len(a), [q |-> <<>>, r |-> <<>>]])

\* a \div b, and whether a remainder is left, for b # 0
BDivMod(a, b) ==
    IF Len(b) = 1
    THEN [q |-> BDivSmall(a, b[1]), rest |-> BModSmallAt[a, b[1], Len(a), 0] # 0]
    ELSE BDivLong(BShl(a, LimbBits - BitsOf(b[Len(b)])),
                  BShl(b, LimbBits - BitsOf(b[Len(b)])))

\* Floating-point values: sign s (1 or -1), and for a finite value the
\* magnitude m * 2^e with m odd (m = 0, e = 0 for zero).
Finite(s, m, e) == [k |-> "finite", s |-> s, m |-> m, e |-> e]
Inf(s) == [k |-> "inf", s |-> s, m |-> <<>>, e |-> 0]
NaN == [k |-> "nan", s |-> 1, m |-> <<>>, e |-> 0]

IsNaN(x) == x.k = "nan"
IsInf(x) == x.k = "inf"
IsFinite(x) == x.k = "finite"
IsZero(x) == x.k = "finite" /\ x.m = <<>>

\* s * m * 2^e with the trailing zero bits of m moved into the exponent
CanonShift(s, m, e, z) == Finite(s, BShr(m, z), e + z)

Canon(s, m, e) ==
    IF m = <<>> THEN Finite(s, <<>>, 0)
    ELSE IF BOdd(m) THEN Finite(s, m, e)
    ELSE CanonShift(s, m, e, BTrailingZeros(m))

\* binary64 and binary32: bits of precision, exponent of the lowest
\* subnormal bit, exponent of the highest bit of the largest value
F64 == [prec |-> 53, emin |-> -1074, emax |-> 1023]
F32 == [prec |-> 24, emin |-> -149, emax |-> 127]
\* No rounding at all
Exact == [prec |-> 100000, emin |-> -100000, emax |-> 100000]

\* The value of format fmt nearest s * (m + t) * 2^e, ties to even, where t is
\* zero or, when rest holds, some amount strictly between 0 and 1.
RoundEnd(fmt, s, q, low) ==
    IF q = <<>> THEN Finite(s, <<>>, 0)
    ELSE IF low + BBitLen(q) - 1 > fmt.emax THEN Inf(s)
    ELSE Canon(s, q, low)

\* q, or q + 1 when the bits dropped below q are more than half of its lowest
\* bit (half and more), or just half of it (half, not more) and q is odd
RoundTie(q, half, more) ==
    IF half /\ (more \/ BOdd(q)) THEN BAdd(q, <<1>>) ELSE q

\* Round for m # 0, where low is the exponent of the lowest bit the format
\* can hold of a value the size of m * 2^e
RoundLow(fmt, s, m, e, rest, low) ==
    IF low <= e THEN RoundEnd(fmt, s, m, e)
    ELSE RoundEnd(fmt, s,
                  RoundTie(BShr(m, low - e), BBit(m, low - e - 1),
                           rest \/ ~BLowZero(m, low - e - 1)),
                  low)

Round(fmt, s, m, e, rest) ==
    IF m = <<>> THEN Finite(s, <<>>, 0)
    ELSE RoundLow(fmt, s, m, e, rest,
                  Max(e + BBitLen(m) - fmt.prec, fmt.emin))

\* The formats and the values of the arithmetic
Formats == {F64, F32, Exact}
Floats == [k : {"finite", "inf", "nan"}, s : {1, -1}, m : Seq(Nat), e : Int]

\* The exponent of the highest bit of a finite x # 0
Top(x) == x.e + BBitLen(x.m) - 1

Neg(x) == IF IsNaN(x) THEN x ELSE [x EXCEPT !.s = -x.s]

\* The sign and the magnitude of the integer v
Signed(v) == [s |-> IF v < 0 THEN -1 ELSE 1, m |-> BFromInt(Abs(v))]

\* The sign and the magnitude of sa * x + sb * y; a zero is positive
AddSigned(sa, sb, x, y) ==
    IF sa = sb THEN [s |-> sa, m |-> BAdd(x, y)]
    ELSE IF x = y THEN [s |-> 1, m |-> <<>>]
    ELSE IF BCmp(x, y) > 0 THEN [s |-> sa, m |-> BSub(x, y)]
    ELSE [s |-> sb, m |-> BSub(y, x)]

\* The exact a + b in units of 2^e, for finite a and b, neither zero, and e
\* the lower of their exponents
AddExact(a, b, e) ==
    IF Len(a.m) = 1 /\ Len(b.m) = 1 /\ Abs(a.e - b.e) <= LimbBits
    THEN Signed(a.s * a.m[1] * 2^(a.e - e) + b.s * b.m[1] * 2^(b.e - e))
    ELSE AddSigned(a.s, b.s, BShl(a.m, a.e - e), BShl(b.m, b.e - e))

RoundSigned(fmt, v, e) == Round(fmt, v.s, v.m, e, FALSE)

AddF[fmt \in Formats, a \in Floats, b \in Floats] ==
    IF IsNaN(a) \/ IsNaN(b) THEN NaN
    ELSE IF IsInf(a) /\ IsInf(b) THEN (IF a.s = b.s THEN a ELSE NaN)
    ELSE IF IsInf(a) THEN a
    ELSE IF IsInf(b) THEN b
    ELSE IF IsZero(a) /\ IsZero(b) THEN (IF a.s = b.s THEN a ELSE Finite(1, <<>>, 0))
    ELSE IF IsZero(a) THEN b
    ELSE IF IsZero(b) THEN a
    ELSE IF Abs(Top(a) - Top(b)) > fmt.prec + 2
         THEN (IF Top(a) > Top(b) THEN a ELSE b)
    ELSE RoundSigned(fmt, AddExact(a, b, Min(a.e, b.e)), Min(a.e, b.e))

SubF(fmt, a, b) == AddF[fmt, a, Neg(b)]

MulF[fmt \in Formats, a \in Floats, b \in Floats] ==
    IF IsNaN(a) \/ IsNaN(b) THEN NaN
    ELSE IF IsInf(a) \/ IsInf(b)
         THEN (IF IsZero(a) \/ IsZero(b) THEN NaN ELSE Inf(a.s * b.s))
    ELSE Round(fmt, a.s * b.s,
               IF Len(a.m) = 1 /\ Len(b.m) = 1
               THEN BFromInt(a.m[1] * b.m[1]) ELSE BMul[a.m, b.m],
               a.e + b.e, FALSE)

\* The bits by which x is raised before it is divided by y, for the quotient
\* to have two bits more than the format holds
DivShift(fmt, x, y) == Max(0, BBitLen(y) + fmt.prec + 2 - BBitLen(x))

RoundQuotient(fmt, s, d, e) == Round(fmt, s, d.q, e, d.rest)

DivF[fmt \in Formats, a \in Floats, b \in Floats] ==
    IF IsNaN(a) \/ IsNaN(b) THEN NaN
    ELSE IF IsInf(a) THEN (IF IsInf(b) THEN NaN ELSE Inf(a.s * b.s))
    ELSE IF IsInf(b) THEN Finite(a.s * b.s, <<>>, 0)
    ELSE IF IsZero(b) THEN (IF IsZero(a) THEN NaN ELSE Inf(a.s * b.s))
    ELSE IF IsZero(a) THEN Finite(a.s * b.s, <<>>, 0)
    ELSE IF b.m = <<1>> THEN Round(fmt, a.s * b.s, a.m, a.e - b.e, FALSE)
    ELSE RoundQuotient(fmt, a.s * b.s,
                       BDivMod(BShl(a.m, DivShift(fmt, a.m, b.m)), b.m),
                       a.e - b.e - DivShift(fmt, a.m, b.m))

\* -1, 0 or 1 as |a| < |b|, |a| = |b| or |a| > |b|, for a and b not NaN
CmpMag(a, b) ==
    IF IsInf(a) \/ IsInf(b)
    THEN (IF IsInf(a) /\ IsInf(b) THEN 0 ELSE IF IsInf(a) THEN 1 ELSE -1)
    ELSE IF IsZero(a) \/ IsZero(b)
    THEN (IF IsZero(a) /\ IsZero(b) THEN 0 ELSE IF IsZero(a) THEN -1 ELSE 1)
    ELSE IF Top(a) # Top(b) THEN (IF Top(a) < Top(b) THEN -1 ELSE 1)
    ELSE LET e == Min(a.e, b.e)
         IN  BCmp(BShl(a.m, a.e - e), BShl(b.m, b.e - e))

\* -1, 0 or 1 as a < b, a = b or a > b, for a and b not NaN
Cmp[a \in Floats, b \in Floats] ==
    LET sa == IF a.m = <<>> /\ a.k = "finite" THEN 0 ELSE a.s
        sb == IF b.m = <<>> /\ b.k = "finite" THEN 0 ELSE b.s
    IN  IF sa # sb THEN (IF sa < sb THEN -1 ELSE 1)
        ELSE IF sa = 0 THEN 0
        ELSE IF a.k = "finite" /\ b.k = "finite" /\ Len(a.m) = 1 /\ Len(b.m) = 1
                /\ Abs(a.e - b.e) <= LimbBits
        THEN LET e == Min(a.e, b.e)
                 x == a.m[1] * 2^(a.e - e)
                 y == b.m[1] * 2^(b.e - e)
             IN  IF x < y THEN -sa ELSE IF x > y THEN sa ELSE 0
        ELSE sa * CmpMag(a, b)

Lt(a, b) == ~IsNaN(a) /\ ~IsNaN(b) /\ Cmp[a, b] < 0
Gt(a, b) == Lt(b, a)
Le(a, b) == ~IsNaN(a) /\ ~IsNaN(b) /\ Cmp[a, b] <= 0
Ge(a, b) == Le(b, a)
Eq(a, b) == ~IsNaN(a) /\ ~IsNaN(b) /\ Cmp[a, b] = 0

\* The whole number i as a float; below 2^24 in size it is a value of both
\* formats.
F(i) == Canon(IF i < 0 THEN -1 ELSE 1, BFromInt(Abs(i)), 0)
Zero == Finite(1, <<>>, 0)
One == Finite(1, <<1>>, 0)

\* The f64 operators +, -, * and / of the code
Add(a, b) == AddF[F64, a, b]
Sub(a, b) == SubF(F64, a, b)
Mul(a, b) == MulF[F64, a, b]
Div(a, b) == DivF[F64, a, b]

\* The f64 nearest n/d: the value of a decimal literal of the source that
\* stands for n/d.
Norm(n, d) == Div(F(n), F(d))

----------------------------------------------------------------------------
\* AdsrParams and AdsrEnvelopeState

AdsrParams(a, d, s, r) ==
    [attack_s |-> a, decay_s |-> d, sustain_level |-> s, release_s |-> r]

\* The variants of AdsrEnvelopeState; a field a variant does not have is Zero.
Attack(attack_start) == [tag |-> "Attack", start |-> attack_start, level |-> Zero]
Decay(decay_start) == [tag |-> "Decay", start |-> decay_start, level |-> Zero]
Sustain == [tag |-> "Sustain", start |-> Zero, level |-> Zero]
Release(start, level) == [tag |-> "Release", start |-> start, level |-> level]
Silent == [tag |-> "Silent", start |-> Zero, level |-> Zero]

\* The valid parameter values the model draws from.
AttackValues == {F(i) : i \in 0..MaxAttack}
DecayValues == {F(i) : i \in 0..MaxDecay}
SustainValues == {Norm(k, SustainSteps) : k \in 0..SustainSteps}
ReleaseValues == {F(i) : i \in 1..MaxRelease}
Times == 0..MaxTime

----------------------------------------------------------------------------
\* AdsrEnvelope::sample: one arm of the match per operator.  Each arm gives
\* the state it leaves, whether it returned (done) and what (ret), and
\* whether an assert! failed (panic).

Return(st, v) == [state |-> st, done |-> TRUE, ret |-> <<v>>, panic |-> FALSE]
Continue(st) == [state |-> st, done |-> FALSE, ret |-> <<>>, panic |-> FALSE]
Panic(st) == [state |-> st, done |-> TRUE, ret |-> <<>>, panic |-> TRUE]

sampleSilent(p, st, time) == Return(st, Zero)

\* sampleSustain as it would be if the Sustain arm returned full level instead
\* of the configured sustain level.
sampleSustain_FullLevel(p, st, time) == Return(st, One)

sampleSustain(p, st, time) == Return(st, p.sustain_level)

\* sampleAttack as it would be if the decay segment were started at the time
\* of the query that notices the attack is over, not at the end of the attack.
sampleAttack_DecayFromNow(p, st, time) ==
    LET reltime == Sub(time, st.start)
    IN  IF Lt(reltime, Zero) THEN Return(st, Zero)
        ELSE IF Gt(reltime, p.attack_s) THEN Continue(Decay(time))
        ELSE Return(st, Div(reltime, p.attack_s))

sampleAttack(p, st, time) ==
    LET reltime == Sub(time, st.start)
    IN  IF Lt(reltime, Zero) THEN Return(st, Zero)
        ELSE IF Gt(reltime, p.attack_s)
             THEN Continue(Decay(Add(st.start, p.attack_s)))
        ELSE Return(st, Div(reltime, p.attack_s))

\* sampleDecay as it would be if the decay ramp fell from 1 to 0 over decay_s
\* without regard to the sustain level.
sampleDecay_RampToZero(p, st, time) ==
    LET reltime == Sub(time, st.start)
    IN  IF Gt(reltime, p.decay_s) \/ Lt(reltime, Zero) THEN Continue(Sustain)
        ELSE LET alpha == Sub(One, Div(reltime, p.decay_s))
             IN  IF ~Ge(alpha, Zero) THEN Panic(st)
                 ELSE IF ~Le(alpha, One) THEN Panic(st)
                 ELSE Return(st, alpha)

\* sampleDecay as it would be if a query before the decay start rewound the
\* envelope into its attack segment.
sampleDecay_BackToAttack(p, st, time) ==
    LET reltime == Sub(time, st.start)
    IN  IF Lt(reltime, Zero) THEN Continue(Attack(Sub(st.start, p.attack_s)))
        ELSE IF Gt(reltime, p.decay_s) THEN Continue(Sustain)
        ELSE LET alpha == Sub(One, Mul(Div(reltime, p.decay_s),
                                       Sub(One, p.sustain_level)))
             IN  IF ~Ge(alpha, Zero) THEN Panic(st)
                 ELSE IF ~Le(alpha, One) THEN Panic(st)
                 ELSE Return(st, alpha)

sampleDecay(p, st, time) ==
    LET reltime == Sub(time, st.start)
    IN  IF Gt(reltime, p.decay_s) \/ Lt(reltime, Zero) THEN Continue(Sustain)
        ELSE LET alpha == Sub(One, Mul(Div(reltime, p.decay_s),
                                       Sub(One, p.sustain_level)))
             IN  IF ~Ge(alpha, Zero) THEN Panic(st)
                 ELSE IF ~Le(alpha, One) THEN Panic(st)
                 ELSE Return(st, alpha)

\* sampleRelease as it would be if the release ramp were scaled by the captured
\* level, so that every release lasted the whole of release_s.
sampleRelease_Scaled(p, st, time) ==
    LET reltime == Sub(time, st.start)
    IN  IF Lt(reltime, Zero) THEN Return(st, st.level)
        ELSE LET alpha == Mul(st.level, Sub(One, Div(reltime, p.release_s)))
             IN  IF Le(alpha, Zero) THEN Return(Silent, Zero)
                 ELSE IF ~Le(alpha, One) THEN Panic(st)
                 ELSE Return(st, alpha)

\* sampleRelease as it would be if each query stored the level it computed
\* back into the state without moving the release start.
sampleRelease_StoresLevel(p, st, time) ==
    LET reltime == Sub(time, st.start)
    IN  IF Lt(reltime, Zero) THEN Return(st, st.level)
        ELSE LET alpha == Sub(st.level, Div(reltime, p.release_s))
             IN  IF Le(alpha, Zero) THEN Return(Silent, Zero)
                 ELSE IF ~Le(alpha, One) THEN Panic(st)
                 ELSE Return(Release(st.start, alpha), alpha)

sampleRelease(p, st, time) ==
    LET reltime == Sub(time, st.start)
    IN  IF Lt(reltime, Zero) THEN Return(st, st.level)
        ELSE LET alpha == Sub(st.level, Div(reltime, p.release_s))
             IN  IF Le(alpha, Zero) THEN Return(Silent, Zero)
                 ELSE IF ~Le(alpha, One) THEN Panic(st)
                 ELSE Return(st, alpha)

\* One iteration of sample's loop.
sampleStep(p, st, time) ==
    CASE st.tag = "Silent" -> sampleSilent(p, st, time)
      [] st.tag = "Sustain" -> sampleSustain(p, st, time)
      [] st.tag = "Attack" -> sampleAttack(p, st, time)
      [] st.tag = "Decay" -> sampleDecay(p, st, time)
      [] st.tag = "Release" -> sampleRelease(p, st, time)

\* AdsrEnvelope::sample: loop until an arm returns or panics.
RECURSIVE sample(_, _, _)

\* The end of the iteration r of sample's loop: what the arm returned, or
\* another iteration from the state the arm left.
sampleLoop(p, r, time) == IF r.done THEN r ELSE sample(p, r.state, time)

sample(p, st, time) == sampleLoop(p, sampleStep(p, st, time), time)

\* trigger as it would be if a retrigger during the release tail were ignored.
trigger_KeepsRelease(st, time) ==
    IF st.tag = "Release" THEN st ELSE Attack(time)

\* AdsrEnvelope::trigger
trigger(st, time) == Attack(time)

\* release as it would be if only Silent were a no-op, so that a second
\* release captured the level again.
release_Recaptures(p, st, time) ==
    IF st.tag \in {"Attack", "Decay", "Sustain", "Release"}
    THEN LET r == sample(p, st, time)
         IN  IF r.panic THEN [state |-> r.state, panic |-> TRUE]
             ELSE [state |-> Release(time, r.ret[1]), panic |-> FALSE]
    ELSE [state |-> st, panic |-> FALSE]

\* The assignment of release, self.state = Release { start: time, level }
\* with r the outcome of the nested call self.sample(time): it is never made
\* when that call panicked.
releaseAssign(time, r) ==
    IF r.panic THEN [state |-> r.state, panic |-> TRUE]
    ELSE [state |-> Release(time, r.ret[1]), panic |-> FALSE]

\* AdsrEnvelope::release: the state it leaves and whether the nested sample
\* call panicked.
release(p, st, time) ==
    IF st.tag \in {"Attack", "Decay", "Sustain"}
    THEN releaseAssign(time, sample(p, st, time))
    ELSE [state |-> st, panic |-> FALSE]

----------------------------------------------------------------------------
\* The parameter store (src/src/param.rs).  Its values are f32: a literal is
\* the f32 nearest the decimal the source writes, and the arithmetic of the
\* curves and of the release scaling rounds to f32.  An f32 is widened to f64
\* (`as f64`, f64::from) without change of value.

ATTACK == 0
DECAY == 1
SUSTAIN == 2
RELEASE == 3
OSC1_TUNE == 4
OSC1_LEVEL == 5
OSC2_TUNE == 6
OSC2_LEVEL == 7
N_PARAM == 8
RELEASE_SCALE == 10

\* Curve::scale for Curve::Identity and Curve::Linear(a, b)
Identity(v) == v
Linear(a, b, v) == AddF[F32, a, MulF[F32, SubF(F32, b, a), v]]

\* The f32 literal n/d
Norm32(n, d) == DivF[F32, F(n), F(d)]

\* PARAMS[index].default
ParamDefault(index) ==
    CASE index = ATTACK -> Norm32(3, 10)
      [] index = DECAY -> Norm32(3, 10)
      [] index = SUSTAIN -> Norm32(8, 10)
      [] index = RELEASE -> Norm32(1, 10)
      [] index = OSC1_TUNE -> Norm32(56, 100)
      [] index = OSC1_LEVEL -> Norm32(5, 10)
      [] index = OSC2_TUNE -> Norm32(43, 100)
      [] index = OSC2_LEVEL -> Norm32(5, 10)

\* PARAMS[index].curve.scale(v), for an index of the table: there is no value
\* for any other index, where the code panics.
CurveScale(index, v) ==
    CASE index \in {ATTACK, DECAY, SUSTAIN, OSC1_LEVEL, OSC2_LEVEL} -> Identity(v)
      [] index = RELEASE -> Linear(Zero, F(10), v)
      [] index \in {OSC1_TUNE, OSC2_TUNE} -> Linear(F(-1), One, v)

\* Params::default
ParamsDefault == [index \in 0..(N_PARAM - 1) |-> ParamDefault(index)]

\* Params::get_parameter: an index outside the array reads as 0.0.
get_parameter(p, index) ==
    IF index \in DOMAIN p THEN p[index] ELSE Zero

\* Params::set_parameter: an index outside the array changes nothing.
set_parameter(p, index, value) ==
    IF index \in DOMAIN p THEN [p EXCEPT ![index] = value] ELSE p

\* Params::scaled_value
scaled_value(p, index) == CurveScale(index, get_parameter(p, index))

\* Params::adsr
adsr(p) ==
    AdsrParams(p[ATTACK], p[DECAY], p[SUSTAIN],
               MulF[F32, p[RELEASE], F(RELEASE_SCALE)])

\* Plugin::new for Solar1, apart from the envelope.
HostInit ==
    /\ sample_rate = F(44100)
    /\ self_time = Zero
    /\ self_note = <<>>
    /\ parameters = ParamsDefault
    /\ out = <<>>
    /\ rendered = 0
    /\ sets = 0
    /\ pc = "loop"
    /\ local = <<>>

----------------------------------------------------------------------------
\* The envelope as a state machine driven by its three methods.

\* AdsrEnvelope::new with any valid parameters.
Init ==
    /\ params \in {AdsrParams(a, d, s, r) :
                     a \in AttackValues, d \in DecayValues,
                     s \in SustainValues, r \in ReleaseValues}
    /\ state = Silent
    /\ panicked = FALSE
    /\ op = "new"
    /\ arg = 0
    /\ ret = <<>>
    /\ prev = Silent
    /\ trig = <<>>
    /\ rep = FALSE
    /\ HostInit

\* Plugin::new for Solar1: the envelope is built from the default parameters.
InitVoice ==
    /\ params = adsr(ParamsDefault)
    /\ state = Silent
    /\ panicked = FALSE
    /\ op = "new"
    /\ arg = 0
    /\ ret = <<>>
    /\ prev = Silent
    /\ trig = <<>>
    /\ rep = FALSE
    /\ HostInit

Trigger(t) ==
    /\ ~panicked
    /\ state' = trigger(state, F(t))
    /\ op' = "trigger"
    /\ arg' = t
    /\ ret' = <<>>
    /\ prev' = state
    /\ trig' = <<t>>
    /\ rep' = FALSE
    /\ UNCHANGED <<params, panicked, voice>>

ReleaseCall(t) ==
    /\ ~panicked
    /\ \E r \in {release(params, state, F(t))} :
          /\ state' = r.state
          /\ panicked' = r.panic
    /\ op' = "release"
    /\ arg' = t
    /\ ret' = <<>>
    /\ prev' = state
    /\ rep' = FALSE
    /\ UNCHANGED <<params, trig, voice>>

Sample(t) ==
    /\ ~panicked
    /\ \E r \in {sample(params, state, F(t))} :
          /\ state' = r.state
          /\ panicked' = r.panic
          /\ ret' = r.ret
    /\ op' = "sample"
    /\ arg' = t
    /\ prev' = state
    /\ rep' = (op = "sample" /\ arg = t)
    /\ UNCHANGED <<params, trig, voice>>

Next ==
    \/ \E t \in Times : Trigger(t)
    \/ \E t \in Times : ReleaseCall(t)
    \/ \E t \in Times : Sample(t)

Spec == Init /\ [][Next]_vars

----------------------------------------------------------------------------
\* Properties of the envelope.

\* The last call was sample(arg) made on an envelope in a state of variant tag.
SampledIn(tag) == op = "sample" /\ prev.tag = tag

\* C1: every sample(time) with time at or after the latest trigger time
\* returns a value in [0, 1], for all valid parameters.
C1_SampleInRange ==
    (op = "sample" /\ (trig = <<>> \/ arg >= trig[1]))
        => (Len(ret) = 1 /\ Ge(ret[1], Zero) /\ Le(ret[1], One))

\* C2: no call of sample or release fails an assertion, and sample never
\* returns a non-number, for all valid parameters including attack_s = 0 and
\* decay_s = 0.
C2_NoPanicNoNaN ==
    /\ ~panicked
    /\ op = "sample" => (Len(ret) = 1 /\ IsFinite(ret[1]))

\* C3: trigger(time) leaves the state Attack with start = time whatever the
\* prior state was, keeping nothing of it.
C3_TriggerSetsAttack ==
    op = "trigger" => state = Attack(F(arg))

\* C3 witness: a trigger made during a release tail with a positive captured
\* level.
C3_Witness ==
    /\ op = "trigger"
    /\ prev.tag = "Release"
    /\ Gt(prev.level, Zero)
    /\ F(arg) # prev.start

\* C4: with the envelope in Attack started at t, sample(t) returns 0.0, and
\* sample(t + attack_s) returns 1.0 when decay_s > 0, for all valid parameters.
C4_AttackEndpoints ==
    SampledIn("Attack") =>
        /\ F(arg) = prev.start => ret = <<Zero>>
        /\ (F(arg) = Add(prev.start, params.attack_s) /\ Gt(params.decay_s, Zero))
               => ret = <<One>>

\* C5: release(t) in Attack, Decay or Sustain leaves Release with start = t
\* and level = L, the value sample(t) returns at that moment, and a following
\* sample(t) returns exactly L.
C5_ReleaseCapturesLevel ==
    (op = "release" /\ prev.tag \in {"Attack", "Decay", "Sustain"}) =>
        /\ ~panicked
        /\ LET before == sample(params, prev, F(arg))
               after == sample(params, state, F(arg))
           IN  /\ ~before.panic
               /\ state = Release(F(arg), before.ret[1])
               /\ ~after.panic
               /\ after.ret = before.ret

\* C6: release(time) leaves the state unchanged when it is Silent or Release.
C6_ReleaseNoOp ==
    (op = "release" /\ prev.tag \in {"Silent", "Release"})
        => (state = prev /\ ~panicked)

\* C6 witness: a second release at another time, while the first release is
\* still sounding.
C6_Witness ==
    /\ op = "release"
    /\ prev.tag = "Release"
    /\ Gt(prev.level, Zero)
    /\ Gt(F(arg), prev.start)
    /\ Gt(sample(params, prev, F(arg)).ret[1], Zero)

\* C7: after a release at t with no later trigger, sample(t + release_s)
\* returns 0.0 and leaves Silent, and every sample of a Silent envelope
\* returns 0.0 and leaves it Silent.
C7_ReleaseEndsSilent ==
    /\ (SampledIn("Release") /\ F(arg) = Add(prev.start, params.release_s))
           => (ret = <<Zero>> /\ state = Silent)
    /\ SampledIn("Silent") => (ret = <<Zero>> /\ state = Silent)

\* C8 as stated: a release begun at any positive level first reaches zero
\* release_s after its start, never earlier.
C8_ZeroOnlyAtReleaseTime ==
    (/\ SampledIn("Release")
     /\ IsFinite(prev.level)
     /\ Gt(prev.level, Zero)
     /\ Ge(F(arg), prev.start)
     /\ Lt(Sub(F(arg), prev.start), params.release_s))
        => ret # <<Zero>>

\* C8 amended: a release begun at level L (a number) falls at the fixed rate
\* 1/release_s whatever L is: the value is L less the elapsed part
\* reltime / release_s of the release time, and it is zero exactly from the
\* moment that part reaches L on, which is L * release_s after the start (to
\* within the rounding of f64) and so earlier for a lower level; by release_s
\* after its start every release has reached zero.
C8_ZeroAtLevelTimesRelease ==
    (SampledIn("Release") /\ IsFinite(prev.level) /\ Ge(F(arg), prev.start)) =>
        LET reltime == Sub(F(arg), prev.start)
            elapsed == Div(reltime, params.release_s)
        IN  /\ ~panicked
            /\ (ret = <<Zero>> /\ state = Silent) <=> Ge(elapsed, prev.level)
            /\ state # Silent => ret = <<Sub(prev.level, elapsed)>>
            /\ Ge(reltime, params.release_s) => ret = <<Zero>>

\* C8 witness: a release begun at a level strictly between 0 and 1 is sampled
\* before release_s has passed and has already reached zero.
C8_Witness ==
    /\ SampledIn("Release")
    /\ Gt(prev.level, Zero)
    /\ Lt(prev.level, One)
    /\ Gt(F(arg), prev.start)
    /\ Lt(Sub(F(arg), prev.start), params.release_s)
    /\ ret = <<Zero>>
    /\ state = Silent

\* C9: a sample of an envelope in Sustain returns exactly sustain_level and
\* leaves it in Sustain, whatever the time.
C9_SustainHolds ==
    SampledIn("Sustain") => (ret = <<params.sustain_level>> /\ state = Sustain)

\* C9 witness: an envelope in Sustain, with a sustain level strictly between
\* 0 and 1, sampled at a time before its trigger time.
C9_Witness ==
    /\ SampledIn("Sustain")
    /\ Gt(params.sustain_level, Zero)
    /\ Lt(params.sustain_level, One)
    /\ trig # <<>>
    /\ arg < trig[1]

\* C10: a sample call that repeats the time of the sample call before it
\* returns the same value and leaves the state as it was.
C10_SampleIdempotent ==
    [][(op = "sample" /\ op' = "sample" /\ arg' = arg)
           => (ret' = ret /\ state' = state /\ panicked' = panicked)]_vars

\* C10 witness: a repeated sample in the middle of a release ramp, where the
\* value is strictly below the captured level.
C10_Witness ==
    /\ rep
    /\ state.tag = "Release"
    /\ Len(ret) = 1
    /\ Gt(ret[1], Zero)
    /\ Lt(ret[1], state.level)

----------------------------------------------------------------------------
\* The example scenario of the envelope: fixed parameters, and calls at the
\* times the scenario uses.  In this specification arg holds the f64 time
\* itself, since the times are decimal fractions of a second: Norm(n, d) is
\* the f64 the literal for n/d stands for.

ScenarioParams == AdsrParams(Norm(1, 5), Norm(1, 2), Norm(1, 2), One)

ScenarioTimes ==
    {Zero, Norm(1, 10), Norm(1, 5), Norm(9, 20), Norm(7, 10), Norm(6, 5)}

InitScenario ==
    /\ params = ScenarioParams
    /\ state = Silent
    /\ panicked = FALSE
    /\ op = "new"
    /\ arg = Zero
    /\ ret = <<>>
    /\ prev = Silent
    /\ trig = <<>>
    /\ rep = FALSE
    /\ HostInit

ScenarioTrigger(time) ==
    /\ ~panicked
    /\ state' = trigger(state, time)
    /\ op' = "trigger"
    /\ arg' = time
    /\ ret' = <<>>
    /\ prev' = state
    /\ trig' = <<time>>
    /\ rep' = FALSE
    /\ UNCHANGED <<params, panicked, voice>>

ScenarioRelease(time) ==
    /\ ~panicked
    /\ \E r \in {release(params, state, time)} :
          /\ state' = r.state
          /\ panicked' = r.panic
    /\ op' = "release"
    /\ arg' = time
    /\ ret' = <<>>
    /\ prev' = state
    /\ rep' = FALSE
    /\ UNCHANGED <<params, trig, voice>>

ScenarioSample(time) ==
    /\ ~panicked
    /\ \E r \in {sample(params, state, time)} :
          /\ state' = r.state
          /\ panicked' = r.panic
          /\ ret' = r.ret
    /\ op' = "sample"
    /\ arg' = time
    /\ prev' = state
    /\ rep' = (op = "sample" /\ arg = time)
    /\ UNCHANGED <<params, trig, voice>>

NextScenario ==
    \/ \E time \in ScenarioTimes : ScenarioTrigger(time)
    \/ \E time \in ScenarioTimes : ScenarioRelease(time)
    \/ \E time \in ScenarioTimes : ScenarioSample(time)

SpecScenario == InitScenario /\ [][NextScenario]_vars

\* The last call was name(time), made on an envelope in state st.
ScenarioCall(name, st, time) == op = name /\ prev = st /\ arg = time

\* C11: with attack 0.2, decay 0.5, sustain 0.5, release 1.0 and trigger(0.0),
\* sample at 0.0, 0.1, 0.2, 0.45, 0.7 returns 0.0, 0.5, 1.0, 0.75, 0.5;
\* release(0.7) captures level 0.5; sample(0.7) returns 0.5; sample(1.2)
\* returns 0.0 and leaves Silent.  Each line is one call of the scenario, made
\* on the state the calls before it leave.
C11_Scenario ==
    /\ ScenarioCall("trigger", prev, Zero) => state = Attack(Zero)
    /\ ScenarioCall("sample", Attack(Zero), Zero)
           => (ret = <<Zero>> /\ state = Attack(Zero))
    /\ ScenarioCall("sample", Attack(Zero), Norm(1, 10))
           => (ret = <<Norm(1, 2)>> /\ state = Attack(Zero))
    /\ ScenarioCall("sample", Attack(Zero), Norm(1, 5))
           => (ret = <<One>> /\ state = Attack(Zero))
    /\ ScenarioCall("sample", Attack(Zero), Norm(9, 20))
           => (ret = <<Norm(3, 4)>> /\ state = Decay(Norm(1, 5)))
    /\ ScenarioCall("sample", Decay(Norm(1, 5)), Norm(7, 10))
           => (ret = <<Norm(1, 2)>> /\ state = Decay(Norm(1, 5)))
    /\ ScenarioCall("release", Decay(Norm(1, 5)), Norm(7, 10))
           => state = Release(Norm(7, 10), Norm(1, 2))
    /\ ScenarioCall("sample", Release(Norm(7, 10), Norm(1, 2)), Norm(7, 10))
           => (ret = <<Norm(1, 2)>> /\ state = Release(Norm(7, 10), Norm(1, 2)))
    /\ ScenarioCall("sample", Release(Norm(7, 10), Norm(1, 2)), Norm(6, 5))
           => (ret = <<Zero>> /\ state = Silent)
    /\ ~panicked

\* C11 witness: the last call of the scenario, sample(1.2) on the release
\* begun at 0.7 from level 0.5, has been made.
C11_Witness ==
    /\ ScenarioCall("sample", Release(Norm(7, 10), Norm(1, 2)), Norm(6, 5))
    /\ trig = <<Zero>>
    /\ state = Silent

----------------------------------------------------------------------------
\* Replay of sample at non-decreasing times after a trigger, with no release.

SampleForward(t) ==
    /\ op # "new"
    /\ op = "sample" => arg <= t
    /\ Sample(t)

NextReplay ==
    \/ \E t \in Times : Trigger(t)
    \/ \E t \in Times : SampleForward(t)

SpecReplay == Init /\ [][NextReplay]_vars

\* C17: after a trigger and any non-decreasing sequence of sample times ending
\* at T, the value returned at T and the state left are those of one
\* sample(T) call made right after the trigger, and the state left is one a
\* further sample(T) reads without changing it.
C17_PathIndependent ==
    op = "sample" =>
        LET once == sample(params, Attack(F(trig[1])), F(arg))
            again == sample(params, state, F(arg))
        IN  /\ ~panicked
            /\ ~once.panic
            /\ once.state = state
            /\ once.ret = ret
            /\ again.state = state
            /\ again.ret = ret

\* C17 witness: a sequence of at least two sample calls has taken the
\* envelope through a decay of positive length into Sustain.
C17_Witness ==
    /\ op = "sample"
    /\ prev.tag = "Decay"
    /\ state = Sustain
    /\ Gt(params.decay_s, Zero)
    /\ Gt(params.attack_s, Zero)

----------------------------------------------------------------------------
\* C18: a new envelope is Silent; a sample call either leaves the state as it
\* was or moves it from Attack to Decay (started at the end of the attack),
\* from Attack or Decay to Sustain, or from Release to Silent; a state change
\* into Attack is made only by trigger and one into Release only by release.
C18_SampleTransitions ==
    /\ op = "new" => state = Silent
    /\ op = "sample" =>
          \/ state = prev
          \/ /\ prev.tag = "Attack"
             /\ state = Decay(Add(prev.start, params.attack_s))
          \/ prev.tag \in {"Attack", "Decay"} /\ state = Sustain
          \/ prev.tag = "Release" /\ state = Silent
    /\ (state.tag = "Attack" /\ state # prev) => op = "trigger"
    /\ (state.tag = "Release" /\ state # prev) => op = "release"

\* C18 witness: one sample call has moved the envelope from Attack through
\* Decay to Sustain.
C18_Witness ==
    /\ op = "sample"
    /\ prev.tag = "Attack"
    /\ state = Sustain
    /\ ~panicked

----------------------------------------------------------------------------
\* MidiNote::frequency (src/src/midi.rs)

A4_PITCH == 69
A4_FREQ == 440

\* The largest integer not above the finite x, for |x| < 2^30.
Floor(x) ==
    IF x.e >= 0 THEN x.s * BToInt(BShl(x.m, x.e))
    ELSE IF x.s = 1 THEN BToInt(BShr(x.m, -x.e))
    ELSE -BToInt(BShr(x.m, -x.e)) - 1

\* exp2 of a finite x whose whole part is k, above half the least value of the
\* format fmt and below 2^(emax + 1).  Below the least value the result is
\* nearer to it than to zero.
Exp2Finite(fmt, x, k) ==
    IF k < fmt.emin THEN [mant |-> Finite(1, <<1>>, fmt.emin), frac |-> Zero]
    ELSE [mant |-> Finite(1, <<1>>, k), frac |-> AddF[Exact, x, F(-k)]]

\* exp2 of x in the format fmt, f64::exp2 and f32::exp2: NaN of NaN, +inf from
\* 2^(emax + 1) on, which is above every finite value of the format, and 0.0
\* up to half its least value, the tie going to the even neighbour.  Any other
\* result is kept as mant * 2^frac with 0 <= frac < 1, which stands for the
\* value of the format nearest to it: mant is the power of two of the whole
\* part of x, frac the rest of x, without rounding.  The result is mant itself
\* when frac is zero.
Exp2(fmt, x) ==
    IF IsNaN(x) THEN [mant |-> NaN, frac |-> Zero]
    ELSE IF Ge(x, F(fmt.emax + 1)) THEN [mant |-> Inf(1), frac |-> Zero]
    ELSE IF Le(x, F(fmt.emin - 1)) THEN [mant |-> Zero, frac |-> Zero]
    ELSE Exp2Finite(fmt, x, Floor(x))

\* `byte as i8`: the u8 reinterpreted as a two's complement i8.
AsI8(byte) == IF byte >= 128 THEN byte - 256 ELSE byte

\* The f64 that frequency returns for the i8 offset from A4: exp2(offset / 12)
\* times A4_FREQ.
FrequencyOf(offset) ==
    LET e == Exp2(F64, Div(F(offset), F(12)))
    IN  [mant |-> Mul(e.mant, F(A4_FREQ)), frac |-> e.frac]

\* What frequency does when an i8 subtraction leaves the range of i8: a build
\* with overflow checks panics, a build without them wraps.
FrequencyOutcomes(offset) ==
    IF offset < -128
    THEN {[panic |-> TRUE, value |-> FrequencyOf(0)],
          [panic |-> FALSE, value |-> FrequencyOf(offset + 256)]}
    ELSE {[panic |-> FALSE, value |-> FrequencyOf(offset)]}

\* frequency as it would be if the offset from A4 were taken in u8, before the
\* cast to a signed type.
frequency_UnsignedOffset(note) ==
    IF note - A4_PITCH < 0
    THEN {[panic |-> TRUE, value |-> FrequencyOf(0)],
          [panic |-> FALSE, value |-> FrequencyOf(AsI8(note - A4_PITCH + 256))]}
    ELSE {[panic |-> FALSE, value |-> FrequencyOf(AsI8(note - A4_PITCH))]}

\* MidiNote::frequency of MidiNote(note), note a u8: the set of outcomes the
\* builds of the program can produce.
frequency(note) == FrequencyOutcomes(AsI8(note) - A4_PITCH)

\* Every u8 a MIDI message can carry as its data[1].
Bytes == 0..255

FrequencyCall(note) ==
    /\ ~panicked
    /\ \E r \in frequency(note) :
          /\ panicked' = r.panic
          /\ ret' = IF r.panic THEN <<>> ELSE <<r.value>>
    /\ op' = "frequency"
    /\ arg' = note
    /\ UNCHANGED <<params, state, prev, trig, rep, voice>>

NextMidi == \E note \in Bytes : FrequencyCall(note)

SpecMidi == InitVoice /\ [][NextMidi]_vars

\* The frequency of exactly hz Hertz, hz a whole number.
Hz(hz) == [mant |-> F(hz), frac |-> Zero]

\* C16: frequency maps note 69 to 440.0, note 81 to 880.0 and note 57 to
\* 220.0, and for every note index in 0..127 the i8 offset index - 69 is
\* computed without overflow, so every build returns the same value.
C16_Frequency ==
    (op = "frequency" /\ arg \in 0..127) =>
        /\ ~panicked
        /\ Cardinality(frequency(arg)) = 1
        /\ AsI8(arg) - A4_PITCH \in -128..127
        /\ ret = <<FrequencyOf(arg - A4_PITCH)>>
        /\ arg = 69 => ret = <<Hz(440)>>
        /\ arg = 81 => ret = <<Hz(880)>>
        /\ arg = 57 => ret = <<Hz(220)>>

\* C16 witness: the frequency of note 57, an octave below A4, has been taken.
C16_Witness ==
    /\ op = "frequency"
    /\ arg = 57
    /\ ret = <<Hz(220)>>

----------------------------------------------------------------------------
\* The voice: Solar1 and its host callbacks (src/src/lib.rs).

MaxRendered == 2
MaxSets == 2

\* Info::outputs: the number of output channels the host hands to process.
OUTPUTS == 2

\* The note numbers of the MIDI messages the host sends.
Notes == {57, 69}

\* A status byte that is neither note-off (128) nor note-on (144): that of a
\* control change.
OtherStatus == {176}

\* The f32 rates the host passes to set_sample_rate.
Rates == {One}

\* The knobs the control path sets, one of the envelope and the tunes of the
\* two oscillators, and the f32 value it sets them to, the lowest of a knob.
KnobIndexes == {ATTACK, OSC1_TUNE, OSC2_TUNE}
KnobValues == {Zero}

\* osc1_level as it would be if the level were that of Params::default, the
\* store not being read again.
osc1_level_Default(p) == ParamsDefault[OSC1_LEVEL]

\* Params::osc1_freq_mul and the three accessors after it
osc1_freq_mul(p) == Exp2(F32, scaled_value(p, OSC1_TUNE))
osc1_level(p) == p[OSC1_LEVEL]
osc2_freq_mul(p) == Exp2(F32, scaled_value(p, OSC2_TUNE))
osc2_level(p) == p[OSC2_LEVEL]

\* A Solar1 value; panic tells that a call on it panicked.
Solar1(rate, t, n, env_params, env_state) ==
    [sample_rate |-> rate, time |-> t, note |-> n,
     envelope |-> [params |-> env_params, state |-> env_state],
     panic |-> FALSE]

\* The plugin as the variables hold it.
Self == Solar1(sample_rate, self_time, self_note, params, state)

\* Solar1::time_per_sample
time_per_sample(self) == Div(One, self.sample_rate)

\* AdsrEnvelope::new
AdsrEnvelopeNew(env_params) == [params |-> env_params, state |-> Silent]

\* note_on as it would be if it triggered the envelope it already has, with
\* the parameters that envelope was built from.
note_on_KeepsEnvelope(self, n, p) ==
    [self EXCEPT !.envelope.state = trigger(self.envelope.state, self.time),
                 !.note = <<n>>]

\* Solar1::note_on
note_on(self, n, p) ==
    LET fresh == AdsrEnvelopeNew(adsr(p))
    IN  [self EXCEPT !.envelope = [fresh EXCEPT
                                     !.state = trigger(fresh.state, self.time)],
                     !.note = <<n>>]

\* note_off as it would be if it released the envelope whatever note the
\* message names.
note_off_AnyNote(self, n) ==
    LET r == release(self.envelope.params, self.envelope.state, self.time)
    IN  [self EXCEPT !.envelope.state = r.state, !.panic = r.panic]

\* The plugin after self.envelope.release(self.time) had the outcome r.
Released(self, r) ==
    [self EXCEPT !.envelope.state = r.state, !.panic = r.panic]

\* Solar1::note_off
note_off(self, n) ==
    IF self.note = <<n>>
    THEN Released(self, release(self.envelope.params, self.envelope.state,
                                self.time))
    ELSE self

\* set_sample_rate as it would be if a new rate restarted the time counter.
set_sample_rate_ResetsTime(self, rate) ==
    [self EXCEPT !.sample_rate = rate, !.time = Zero]

\* Solar1::set_sample_rate
set_sample_rate(self, rate) == [self EXCEPT !.sample_rate = rate]

\* The f32 literal 0.0 that process writes while no note is active.
SilentSample == [signal |-> <<>>, alpha |-> Zero]

\* The f32 (signal * alpha) that process writes while a note is active.  The
\* three sawtooth phases (x % 1.0 - 0.5) are not evaluated: the sample is kept
\* as the operands the code computes it from, each the value its accessor
\* returned when the iteration called it.
MixedSample(t, read, alpha) ==
    [signal |-> <<[time |-> t, base_freq |-> read[1],
                   osc1_freq_mul |-> read[2],
                   osc1_level |-> read[4],
                   osc2_freq_mul |-> read[3],
                   osc2_level |-> read[5]]>>,
     alpha |-> alpha]

\* process_top as it would be if the oscillators ran, at the pitch of A4, while
\* no note is active.
process_top_Drone(self) ==
    IF self.note # <<>>
    THEN {[panic |-> f.panic, output |-> <<>>,
           base_freq |-> IF f.panic THEN <<>> ELSE <<f.value>>] :
             f \in frequency(self.note[1])}
    ELSE {[panic |-> FALSE, output |-> <<>>, base_freq |-> <<FrequencyOf(0)>>]}

\* The top of the body of process's loop, the outcomes it can have: base_freq
\* when a note is active, unless frequency panicked, and else the sample the
\* iteration writes.
process_top(self) ==
    IF self.note # <<>>
    THEN {[panic |-> f.panic, output |-> <<>>,
           base_freq |-> IF f.panic THEN <<>> ELSE <<f.value>>] :
             f \in frequency(self.note[1])}
    ELSE {[panic |-> FALSE, output |-> <<SilentSample>>, base_freq |-> <<>>]}

\* The end of the loop body once the accessors have returned read and
\* self.envelope.sample(self.time) has had the outcome env.
process_mix(self, per_sample, read, env) ==
    IF env.panic
    THEN [self |-> [self EXCEPT !.envelope.state = env.state, !.panic = TRUE],
          output |-> <<>>]
    ELSE [self |-> [self EXCEPT !.envelope.state = env.state,
                                !.time = Add(self.time, per_sample)],
          output |-> <<MixedSample(self.time, read, env.ret[1])>>]

\* process_finish as it would be if the envelope followed the parameter store,
\* taking its ADSR values from it again for every sample.
process_finish_LiveAdsr(self, p, per_sample, read) ==
    process_mix([self EXCEPT !.envelope.params = adsr(p)], per_sample,
                Append(read, osc2_level(p)),
                sample(adsr(p), self.envelope.state, self.time))

\* The body of process's loop from its last read of the store, that of
\* osc2_level, to the end: the plugin it leaves and the sample it writes, none
\* if it panicked.
process_finish(self, p, per_sample, read) ==
    process_mix(self, per_sample, Append(read, osc2_level(p)),
                sample(self.envelope.params, self.envelope.state, self.time))

\* The sample written in unison to every output channel.
Frame(output_sample) == [buf_idx \in 1..OUTPUTS |-> output_sample]

\* The variables take the fields of the plugin value self.
Store(self) ==
    /\ sample_rate' = self.sample_rate
    /\ self_time' = self.time
    /\ self_note' = self.note
    /\ params' = self.envelope.params
    /\ state' = self.envelope.state
    /\ panicked' = self.panic

\* process_midi_event with a note-on message, status byte 144
NoteOn(n) ==
    /\ ~panicked
    /\ pc = "loop"
    /\ Store(note_on(Self, n, parameters))
    /\ op' = "note_on"
    /\ arg' = n
    /\ ret' = <<>>
    /\ prev' = state
    /\ rep' = FALSE
    /\ UNCHANGED <<trig, parameters, out, rendered, sets, pc, local>>

\* process_midi_event with a note-off message, status byte 128
NoteOff(n) ==
    /\ ~panicked
    /\ pc = "loop"
    /\ Store(note_off(Self, n))
    /\ op' = "note_off"
    /\ arg' = n
    /\ ret' = <<>>
    /\ prev' = state
    /\ rep' = FALSE
    /\ UNCHANGED <<trig, parameters, out, rendered, sets, pc, local>>

\* process_midi_event with a message of any other status byte: nothing
\* happens.
OtherEvent(status) ==
    /\ ~panicked
    /\ pc = "loop"
    /\ op' = "other_event"
    /\ arg' = status
    /\ ret' = <<>>
    /\ prev' = state
    /\ rep' = FALSE
    /\ UNCHANGED <<params, state, panicked, trig, voice>>

SetSampleRate(rate) ==
    /\ ~panicked
    /\ pc = "loop"
    /\ Store(set_sample_rate(Self, rate))
    /\ op' = "set_sample_rate"
    /\ arg' = rate
    /\ ret' = <<>>
    /\ prev' = state
    /\ rep' = FALSE
    /\ UNCHANGED <<trig, parameters, out, rendered, sets, pc, local>>

\* Solar1::process, one sample of the buffer at a time: a process call on a
\* buffer of k samples is k iterations of its loop.  per_sample, which the code
\* takes once per call, is the same for each of them, because the rate cannot
\* change during the call.  One iteration takes the lock of the parameter
\* store four times, once in each accessor, and frees it before the next: it
\* is four steps, between which set_parameter may run on another thread.
\* Everything else the iteration does works on the plugin alone, which process
\* borrows mutably, and belongs to the step of the read before it.

\* The top of an iteration.  With no note active it is the whole iteration;
\* with one it ends with the read of osc1_freq_mul.
ProcessTop ==
    /\ ~panicked
    /\ pc = "loop"
    /\ rendered < MaxRendered
    /\ \E r \in process_top(Self) :
          /\ panicked' = r.panic
          /\ out' = IF r.output = <<>> THEN out ELSE Frame(r.output[1])
          /\ local' = IF r.base_freq = <<>> THEN <<>>
                      ELSE <<r.base_freq[1], osc1_freq_mul(parameters)>>
          /\ ret' = IF r.output # <<>> THEN <<r.output[1].alpha>>
                    ELSE IF r.base_freq = <<>> THEN <<>>
                    ELSE <<local'[2]>>
    /\ pc' = IF local' = <<>> THEN "loop" ELSE "osc2_freq_mul"
    /\ rendered' = IF local' = <<>> THEN rendered + 1 ELSE rendered
    /\ op' = IF local' = <<>> THEN "process" ELSE "osc1_freq_mul"
    /\ arg' = self_time
    /\ prev' = state
    /\ rep' = FALSE
    /\ UNCHANGED <<params, state, trig, sample_rate, self_time, self_note,
                   parameters, sets>>

\* The read of osc2_freq_mul
ProcessOsc2FreqMul ==
    /\ ~panicked
    /\ pc = "osc2_freq_mul"
    /\ local' = Append(local, osc2_freq_mul(parameters))
    /\ pc' = "osc1_level"
    /\ op' = "osc2_freq_mul"
    /\ arg' = self_time
    /\ ret' = <<local'[3]>>
    /\ prev' = state
    /\ rep' = FALSE
    /\ UNCHANGED <<params, state, panicked, trig, sample_rate, self_time,
                   self_note, parameters, out, rendered, sets>>

\* The read of osc1_level
ProcessOsc1Level ==
    /\ ~panicked
    /\ pc = "osc1_level"
    /\ local' = Append(local, osc1_level(parameters))
    /\ pc' = "osc2_level"
    /\ op' = "osc1_level"
    /\ arg' = self_time
    /\ ret' = <<local'[4]>>
    /\ prev' = state
    /\ rep' = FALSE
    /\ UNCHANGED <<params, state, panicked, trig, sample_rate, self_time,
                   self_note, parameters, out, rendered, sets>>

\* The read of osc2_level and the rest of the iteration: the envelope is
\* sampled, the sample written and the time advanced.
ProcessFinish ==
    /\ ~panicked
    /\ pc = "osc2_level"
    /\ \E r \in {process_finish(Self, parameters, time_per_sample(Self), local)} :
          /\ Store(r.self)
          /\ out' = IF r.output = <<>> THEN out ELSE Frame(r.output[1])
          /\ ret' = IF r.output = <<>> THEN <<>> ELSE <<r.output[1].alpha>>
    /\ pc' = "loop"
    /\ local' = <<>>
    /\ rendered' = rendered + 1
    /\ op' = "process"
    /\ arg' = self_time
    /\ prev' = state
    /\ rep' = FALSE
    /\ UNCHANGED <<trig, parameters, sets>>

\* One step of an iteration of the loop of Solar1::process
ProcessSample ==
    \/ ProcessTop
    \/ ProcessOsc2FreqMul
    \/ ProcessOsc1Level
    \/ ProcessFinish

\* PluginParameters::set_parameter, called by the host's control path on the
\* Arc<Params> of get_parameter_object, from its own thread: at any moment the
\* lock of the store is free, also between two reads of one iteration of
\* process.
SetParameter(index, value) ==
    /\ ~panicked
    /\ sets < MaxSets
    /\ parameters' = set_parameter(parameters, index, value)
    /\ sets' = sets + 1
    /\ op' = "set_parameter"
    /\ arg' = index
    /\ ret' = <<>>
    /\ prev' = state
    /\ rep' = FALSE
    /\ UNCHANGED <<params, state, panicked, trig, sample_rate, self_time,
                   self_note, out, rendered, pc, local>>

NextVoice ==
    \/ \E n \in Notes : NoteOn(n)
    \/ \E n \in Notes : NoteOff(n)
    \/ \E status \in OtherStatus : OtherEvent(status)
    \/ \E rate \in Rates : SetSampleRate(rate)
    \/ ProcessSample
    \/ \E index \in KnobIndexes, value \in KnobValues : SetParameter(index, value)

SpecVoice == InitVoice /\ [][NextVoice]_vars

\* Every knob with an f32 value the control path sets it to, none the value of
\* Params::default.  set_parameter stores any f32: 64.5 and -74.5 are tunes
\* whose exp2 leaves the range of f32, to +inf and to 0.0.
Knobs == {<<ATTACK, Zero>>, <<DECAY, One>>, <<SUSTAIN, Zero>>, <<RELEASE, One>>,
          <<OSC1_TUNE, Norm32(129, 2)>>, <<OSC1_LEVEL, One>>,
          <<OSC2_TUNE, Norm32(-149, 2)>>, <<OSC2_LEVEL, Zero>>}

\* The voice playing A4 while the control path turns any of its knobs.
NextKnobs ==
    \/ NoteOn(A4_PITCH)
    \/ \E rate \in Rates : SetSampleRate(rate)
    \/ ProcessSample
    \/ \E knob \in Knobs : SetParameter(knob[1], knob[2])

SpecKnobs == InitVoice /\ [][NextKnobs]_vars

----------------------------------------------------------------------------
\* Claims about the voice

\* C12: note_off(n) acts only when n is the active note, and then it releases
\* the envelope at the current voice time; for every other n, also when no
\* note is active, the envelope state, the active note and the time are left
\* unchanged.
C12_NoteOffOnlyActive ==
    [][op' = "note_off" =>
          IF self_note = <<arg'>>
          THEN /\ state' = release(params, state, self_time).state
               /\ UNCHANGED <<params, self_note, self_time>>
          ELSE UNCHANGED <<params, state, panicked, self_note, self_time>>]_vars

\* C12 witness: a note-off for another note than the one that is sounding has
\* been handled.
C12_Witness ==
    /\ op = "note_off"
    /\ self_note # <<>>
    /\ self_note # <<arg>>
    /\ state.tag \in {"Attack", "Decay", "Sustain"}
    /\ rendered > 0

\* C13: after note_on(n), in whatever state the voice was, the envelope has the
\* parameter store's current ADSR values and is in Attack with the current
\* voice time as its start, and the active note is n.
C13_NoteOnReplaces ==
    op = "note_on" =>
        /\ params = adsr(parameters)
        /\ state = Attack(self_time)
        /\ self_note = <<arg>>
        /\ ~panicked

\* C13 witness: a note-on arrived during the release tail of another note,
\* after the ADSR knobs had been changed.
C13_Witness ==
    /\ op = "note_on"
    /\ prev.tag = "Release"
    /\ adsr(parameters) # adsr(ParamsDefault)
    /\ rendered > 0

\* C14: while no note is active, a rendered sample is exactly 0.0 on every
\* output channel and rendering leaves the envelope state as it was.
C14_SilenceWithoutNote ==
    (op = "process" /\ self_note = <<>>) =>
        /\ out = Frame(SilentSample)
        /\ \A buf_idx \in 1..OUTPUTS : out[buf_idx].alpha = Zero
        /\ state = prev
        /\ state = Silent
        /\ ~panicked

\* C14 witness: two samples have been rendered with no note active.
C14_Witness ==
    /\ op = "process"
    /\ self_note = <<>>
    /\ rendered >= 2

\* C15: every rendered sample advances the voice time by 1/sample_rate,
\* whether or not a note is active.
C15_TimeAdvances ==
    [][(op' = "process" /\ ~panicked') =>
          self_time' = Add(self_time, Div(One, sample_rate))]_vars

\* C19: the ADSR parameters of the envelope are those of the parameter store
\* at the note-on: no step but a note-on changes them, and a set_parameter, at
\* whatever point of the rendering it comes and whichever knob it sets, changes
\* neither them nor the envelope state.  The oscillator tune and level are
\* read again for each rendered sample: an iteration starts with nothing read,
\* each of its reads returns what the store holds at that moment, exp2 of the
\* scaled knob for a tune and the knob itself for a level, and the sample is
\* made from the four values this iteration has read.
C19_AdsrSnapshot ==
    /\ [](op = "note_on" => params = adsr(parameters))
    /\ [][params' # params => op' = "note_on"]_vars
    /\ [][op' = "set_parameter" => UNCHANGED <<params, state, pc, local>>]_vars
    /\ [](pc = "loop" <=> local = <<>>)
    /\ [][op' = "osc1_freq_mul" =>
            /\ local = <<>>
            /\ Len(local') = 2
            /\ local'[2] = Exp2(F32, Linear(F(-1), One, parameters[OSC1_TUNE]))]_vars
    /\ [][op' = "osc2_freq_mul" =>
            local' = Append(local, Exp2(F32, Linear(F(-1), One,
                                                    parameters[OSC2_TUNE])))]_vars
    /\ [][op' = "osc1_level" =>
            local' = Append(local, parameters[OSC1_LEVEL])]_vars
    /\ [][(op' = "process" /\ self_note # <<>> /\ ~panicked') =>
            \A buf_idx \in 1..OUTPUTS :
                out'[buf_idx].signal =
                    <<[time |-> self_time, base_freq |-> local[1],
                       osc1_freq_mul |-> local[2],
                       osc1_level |-> local[4],
                       osc2_freq_mul |-> local[3],
                       osc2_level |-> parameters[OSC2_LEVEL]]>>]_vars

\* C19 witness: while a note sounds, a knob of the envelope has been set in the
\* middle of an iteration of process, before its last read, and the envelope
\* keeps the values of its note-on; the sample before was rendered with the
\* level of oscillator 1 that the store held then, and this iteration has read
\* the level set since.
C19_Witness ==
    /\ op = "set_parameter"
    /\ arg \in {ATTACK, DECAY, SUSTAIN, RELEASE}
    /\ pc = "osc2_level"
    /\ self_note # <<>>
    /\ ~panicked
    /\ state.tag \in {"Attack", "Decay", "Sustain", "Release"}
    /\ params # adsr(parameters)
    /\ rendered > 0
    /\ out[1].signal # <<>>
    /\ out[1].signal[1].osc1_level = ParamsDefault[OSC1_LEVEL]
    /\ local[4] = One

\* C20: the start time held in an Attack, Decay or Release state is never
\* greater than the voice time, and once a note is active the active note
\* never becomes empty again.
C20_StartNotAfterTime ==
    /\ [](state.tag \in {"Attack", "Decay", "Release"} =>
            Le(state.start, self_time))
    /\ [][self_note # <<>> => self_note' # <<>>]_vars

\* C20 witness: a sample has been rendered during a release that began after
\* the time had moved on from zero.
C20_Witness ==
    /\ op = "process"
    /\ state.tag = "Release"
    /\ Lt(Zero, state.start)
    /\ Lt(state.start, self_time)
    /\ self_note # <<>>

====
